---- MODULE Spec2Model ----
(***************************************************************************)
(* Model of the configuration key obfuscator (config_obfuscator.py) and of *)
(* the source refactoring tool (config_refactor.py).                       *)
(*                                                                         *)
(* A YAML document is a tree: Leaf(ty, val) is a non-mapping value, and    *)
(* MapNode(items) is a mapping whose items are a Python dict, modelled as  *)
(* a sequence of [k, v] records in insertion order with unique keys.       *)
(* A file on disk is the sequence of documents yaml.safe_load_all reads    *)
(* from it.                                                                *)
(***************************************************************************)
EXTENDS Integers, Sequences, FiniteSets, TLC

\* ------------------------------------------------------------------ bounds
MaxFiles == 2       \* files of the configuration group
MaxDocs == 2        \* documents of the group, over all its files
MaxKeys == 4        \* mapping keys of the group, over all its documents
MaxRuns == 2        \* invocations of process_all_config_files, or of the
                    \* refactoring tool
MaxProjects == 2    \* Maven projects of the workspace
MaxJava == 2        \* Java files of the workspace, over all its projects
MaxFrags == 2       \* statements of a Java file
MaxEntries == 2     \* entries of a mapping table read by the refactoring tool

VARIABLES
  files,             \* the group's files: [docs, fault] per file, in walk order
  mappingFile,       \* <group>-key-mapping.yaml: [exists, table]
  project_mappings,  \* the dict process_all_config_files accumulates
  idx,               \* position of the loop over the group's files
  phase,             \* "idle", "loop" (inside the loop over files) or "done"
  runs,              \* completed invocations of process_all_config_files
  errors,            \* files whose processing reported an error in this run
  input,             \* history: the files as they were when this run started
  prevMapping        \* history: the mapping artifact when this run started

obfVars == <<files, mappingFile, project_mappings, idx, phase, runs, errors,
             input, prevMapping>>

VARIABLES
  artifacts,         \* the mapping files of the project root, [exists, table]:
                     \* artifacts[0] is config-key-mapping.yaml, artifacts[p]
                     \* is <project p>-key-mapping.yaml
  java,              \* per project, its Java files in walk order:
                     \* [content, config, fault]
  self_key_mapping,  \* self.key_mapping
  current_project,   \* self.current_project, 0 while the attribute is not set
  rpc,               \* where the refactoring tool stands: "new", "ready",
                     \* "project", "config", "calls", "done" or "crashed"
  projIdx,           \* position of the loop over the sorted projects
  refRuns,           \* invocations of the refactoring tool so far
  javaInput,         \* history: the Java files when this invocation started
  status,            \* history: per project, what this invocation did with it
  failed,            \* history: the files <<p, i>> whose processing failed
  rewritten          \* history: the projects some invocation went through

refVars == <<artifacts, java, self_key_mapping, current_project, rpc, projIdx, refRuns,
             javaInput, status, failed, rewritten>>

vars == <<obfVars, refVars>>

\* ------------------------------------------------------- Python dict model
DictKeys(d) == {d[i].k : i \in 1..Len(d)}

DictHas(d, key) == key \in DictKeys(d)

DictGet(d, key) == d[CHOOSE i \in 1..Len(d) : d[i].k = key].v

\* d[key] = val : an existing key keeps its position, a new key is appended.
DictSet(d, key, val) ==
  IF DictHas(d, key)
  THEN [i \in 1..Len(d) |-> IF d[i].k = key THEN [k |-> key, v |-> val] ELSE d[i]]
  ELSE Append(d, [k |-> key, v |-> val])

RECURSIVE DictUpdateFrom(_, _, _)
DictUpdateFrom(d, e, i) ==
  IF i > Len(e) THEN d ELSE DictUpdateFrom(DictSet(d, e[i].k, e[i].v), e, i + 1)

\* d.update(e)
DictUpdate(d, e) == DictUpdateFrom(d, e, 1)

\* ---------------------------------------------------------- document trees
Leaf(ty, val) == [t |-> "leaf", ty |-> ty, val |-> val, items |-> <<>>]

MapNode(items) == [t |-> "map", ty |-> "dict", val |-> 0, items |-> items]

\* The document of an empty YAML document (safe_load_all yields None).
NoneDoc == Leaf("none", 0)

IsDict(n) == n.t = "map"

\* ----------------------------------------------------------- key universe
\* "cfg_" and the first 8 hex digits of the key's md5 digest, tabulated for
\* the keys of the model and for the names generated from them. "kot" and
\* "bwma" are two keys whose digests share their first 8 hex digits; "dc2"
\* is a key that is a suffix of its own obfuscated name.
generate_obfuscated_name(original_key) ==
  CASE original_key = "kot" -> "cfg_a986d9ee"
    [] original_key = "cfg_a986d9ee" -> "cfg_d897f8b7"
    [] original_key = "cfg_d897f8b7" -> "cfg_d2255540"
    [] original_key = "cfg_d2255540" -> "cfg_95ead5bd"
    [] original_key = "cfg_95ead5bd" -> "cfg_9efd0b3d"
    [] original_key = "bwma" -> "cfg_a986d9ee"
    [] original_key = "timeout" -> "cfg_90272dda"
    [] original_key = "cfg_90272dda" -> "cfg_28112563"
    [] original_key = "cfg_28112563" -> "cfg_3b8b0d31"
    [] original_key = "cfg_3b8b0d31" -> "cfg_a3981623"
    [] original_key = "cfg_a3981623" -> "cfg_7b5fbd97"
    [] original_key = "dc2" -> "cfg_ef420dc2"
    [] original_key = "cfg_ef420dc2" -> "cfg_0606aced"
    [] original_key = "cfg_0606aced" -> "cfg_e99d2d41"
    [] original_key = "cfg_e99d2d41" -> "cfg_c5776954"
    [] original_key = "cfg_c5776954" -> "cfg_ba3ebbd0"
    [] original_key = "maxAge" -> "cfg_1e0ac3b9"
    [] original_key = "*" -> "cfg_3389dae3"
    [] original_key = "app" -> "cfg_d2a57dc1"
    [] original_key = "cfg_d2a57dc1" -> "cfg_6216b385"
    [] original_key = "cfg_6216b385" -> "cfg_a9bedd7f"
    [] original_key = "configurations" -> "cfg_86f23519"
    [] original_key = "cfg_86f23519" -> "cfg_642d747d"
    [] original_key = "cfg_642d747d" -> "cfg_70250bff"
    [] original_key = "profiles" -> "cfg_d9707283"
    [] original_key = "cfg_d9707283" -> "cfg_f6dff4bd"
    [] original_key = "cfg_f6dff4bd" -> "cfg_5a4f87ca"
    [] original_key = "server" -> "cfg_cf1e8c14"
    [] original_key = "cfg_cf1e8c14" -> "cfg_1ef66699"
    [] original_key = "cfg_1ef66699" -> "cfg_eb139f51"
    [] original_key = "spring" -> "cfg_2a2d595e"
    [] original_key = "cfg_2a2d595e" -> "cfg_6dbd0f67"
    [] original_key = "cfg_6dbd0f67" -> "cfg_18778279"

\* Every key string of the model in Python's str order (the order yaml.dump
\* sorts mapping keys in).
KeyOrder ==
  << "*", "app", "bwma", "cfg_0606aced", "cfg_18778279", "cfg_1e0ac3b9",
     "cfg_1ef66699", "cfg_28112563", "cfg_2a2d595e", "cfg_3389dae3",
     "cfg_3b8b0d31", "cfg_5a4f87ca", "cfg_6216b385", "cfg_642d747d",
     "cfg_6dbd0f67", "cfg_70250bff", "cfg_7b5fbd97", "cfg_86f23519",
     "cfg_90272dda", "cfg_95ead5bd", "cfg_9efd0b3d", "cfg_a3981623",
     "cfg_a986d9ee", "cfg_a9bedd7f", "cfg_ba3ebbd0", "cfg_c5776954",
     "cfg_cf1e8c14", "cfg_d2255540", "cfg_d2a57dc1", "cfg_d897f8b7",
     "cfg_d9707283", "cfg_e99d2d41", "cfg_eb139f51", "cfg_ef420dc2",
     "cfg_f6dff4bd", "configurations", "dc2", "kot", "maxAge", "profiles",
     "server", "spring", "timeout" >>

KeyRank(key) == CHOOSE i \in 1..Len(KeyOrder) : KeyOrder[i] = key

\* ------------------------------------------------------ yaml.dump / load
RECURSIVE SortedInsert(_, _)
SortedInsert(sorted, item) ==
  IF sorted = <<>> THEN <<item>>
  ELSE IF KeyRank(item.k) < KeyRank(Head(sorted).k)
       THEN <<item>> \o sorted
       ELSE <<Head(sorted)>> \o SortedInsert(Tail(sorted), item)

RECURSIVE SortItems(_, _, _)
SortItems(items, i, acc) ==
  IF i > Len(items) THEN acc ELSE SortItems(items, i + 1, SortedInsert(acc, items[i]))

\* What safe_load reads back from what yaml.dump writes for one node: the
\* representer emits the keys of every mapping in sorted order (sort_keys
\* defaults to True), leaves are written and read back as they are.
RECURSIVE yaml_dump(_)
yaml_dump(node) ==
  IF IsDict(node)
  THEN MapNode(SortItems([i \in 1..Len(node.items) |->
                            [k |-> node.items[i].k, v |-> yaml_dump(node.items[i].v)]],
                         1, <<>>))
  ELSE node

yaml_dump_all(documents) == [i \in 1..Len(documents) |-> yaml_dump(documents[i])]

\* ------------------------------------------------------------- obfuscator
\* A call's outcome: the returned (data, mapping) pair, or a raised exception.
Ok(out, map) == [err |-> FALSE, out |-> out, map |-> map]

Raised == [err |-> TRUE, out |-> NoneDoc, map |-> <<>>]

RECURSIVE obfuscate_section(_)
RECURSIVE SectionLoop(_, _, _, _)
SectionLoop(section_data, i, obfuscated_section, key_mapping) ==
  IF i > Len(section_data) THEN Ok(MapNode(obfuscated_section), key_mapping)
  ELSE LET key == section_data[i].k
           value == section_data[i].v
           obfuscated_key == generate_obfuscated_name(key)
           km == DictSet(key_mapping, key, obfuscated_key)
       IN IF IsDict(value)
          THEN LET r == obfuscate_section(value)
               IN SectionLoop(section_data, i + 1,
                              DictSet(obfuscated_section, obfuscated_key, r.out),
                              DictUpdate(km, r.map))
          ELSE SectionLoop(section_data, i + 1,
                           DictSet(obfuscated_section, obfuscated_key, value), km)

obfuscate_section(section_data) == SectionLoop(section_data.items, 1, <<>>, <<>>)

RECURSIVE ConfigurationsLoop(_, _, _, _)
ConfigurationsLoop(config_data, i, obfuscated_config, key_mapping) ==
  IF i > Len(config_data) THEN Ok(MapNode(obfuscated_config), key_mapping)
  ELSE LET section_key == config_data[i].k
           section_value == config_data[i].v
           obfuscated_section_key == generate_obfuscated_name(section_key)
           km == DictSet(key_mapping, section_key, obfuscated_section_key)
       IN IF IsDict(section_value)
          THEN LET r == obfuscate_section(section_value)
               IN ConfigurationsLoop(config_data, i + 1,
                                     DictSet(obfuscated_config, obfuscated_section_key, r.out),
                                     DictUpdate(km, r.map))
          ELSE ConfigurationsLoop(config_data, i + 1,
                                  DictSet(obfuscated_config, obfuscated_section_key,
                                          section_value), km)

\* config_data.items() raises AttributeError when the value is no dict.
obfuscate_configurations(config_data) ==
  IF IsDict(config_data) THEN ConfigurationsLoop(config_data.items, 1, <<>>, <<>>)
  ELSE Raised

\* 'profiles' in data['spring']: a key test on a dict, a substring test on a
\* str (no str leaf of the model contains it), TypeError on an int or None.
ProfilesInRaises(spring) == ~IsDict(spring) /\ spring.ty \in {"int", "none"}

ProfilesIn(spring) == IsDict(spring) /\ DictHas(spring.items, "profiles")

\* A document walk that takes every key of a dict document for a
\* configuration key, whatever subtree it lies in.
obfuscate_document_everywhere(data) ==
  IF ~IsDict(data) THEN Ok(data, <<>>) ELSE obfuscate_section(data)

RECURSIVE obfuscate_document(_)
RECURSIVE DocumentLoop(_, _, _, _)
DocumentLoop(data, i, updated_data, key_mapping) ==
  IF i > Len(data) THEN Ok(MapNode(updated_data), key_mapping)
  ELSE LET key == data[i].k
           value == data[i].v
       IN IF IsDict(value)
          THEN LET r == obfuscate_document(value)
               IN IF r.err THEN Raised
                  ELSE DocumentLoop(data, i + 1, DictSet(updated_data, key, r.out),
                                    DictUpdate(key_mapping, r.map))
          ELSE DocumentLoop(data, i + 1, DictSet(updated_data, key, value), key_mapping)

obfuscate_document(data) ==
  IF ~IsDict(data) THEN Ok(data, <<>>)
  ELSE IF DictHas(data.items, "spring") /\ ProfilesInRaises(DictGet(data.items, "spring"))
  THEN Raised
  ELSE IF DictHas(data.items, "spring") /\ ProfilesIn(DictGet(data.items, "spring"))
  THEN IF DictHas(data.items, "configurations")
       THEN LET r == obfuscate_configurations(DictGet(data.items, "configurations"))
            IN IF r.err THEN Raised
               ELSE Ok(MapNode(DictSet(data.items, "configurations", r.out)), r.map)
       ELSE Ok(data, <<>>)
  ELSE IF DictHas(data.items, "configurations")
  THEN LET r == obfuscate_configurations(DictGet(data.items, "configurations"))
       IN IF r.err THEN Raised
          ELSE Ok(MapNode(DictSet(data.items, "configurations", r.out)), r.map)
  ELSE DocumentLoop(data.items, 1, <<>>, <<>>)

\* The loop over the documents of one file: the updated documents and the
\* file's key mapping, or the exception a document raised.
RECURSIVE DocumentsLoop(_, _, _, _)
DocumentsLoop(documents, i, updated_documents, key_mapping) ==
  IF i > Len(documents) THEN Ok(updated_documents, key_mapping)
  ELSE IF documents[i] = NoneDoc
  THEN DocumentsLoop(documents, i + 1, Append(updated_documents, documents[i]), key_mapping)
  ELSE LET r == obfuscate_document(documents[i])
       IN IF r.err THEN Raised
          ELSE DocumentsLoop(documents, i + 1, Append(updated_documents, r.out),
                             DictUpdate(key_mapping, r.map))

\* obfuscate_yaml_file on the documents read from one file.
obfuscate_yaml_file(documents) == DocumentsLoop(documents, 1, <<>>, <<>>)

\* --------------------------------------------------------- input documents
CfgKeys == {"kot", "bwma", "timeout"}

\* The n-th leaf of a document: leaves are pairwise distinct, of two types.
LeafNo(n) == Leaf(IF n % 2 = 1 THEN "int" ELSE "str", n)

RECURSIVE ItemsOfSize(_)
RECURSIVE ChildrenOfSize(_)
\* The dicts over CfgKeys that hold n keys in all, nested ones included.
ItemsOfSize(n) ==
  IF n = 0 THEN {<<>>}
  ELSE UNION { LET vals == ChildrenOfSize(s - 1)
                   rests == ItemsOfSize(n - s)
               IN UNION { { <<[k |-> key, v |-> val]>> \o rest :
                              key \in CfgKeys \ DictKeys(rest) } :
                          val \in vals, rest \in rests } :
               s \in 1..n }

ChildrenOfSize(m) ==
  IF m = 0 THEN {LeafNo(0)} ELSE {MapNode(it) : it \in ItemsOfSize(m)}

RECURSIVE LabelFrom(_, _, _, _)
LabelFrom(items, i, next, acc) ==
  IF i > Len(items) THEN [items |-> acc, next |-> next]
  ELSE LET v == items[i].v
       IN IF IsDict(v)
          THEN LET r == LabelFrom(v.items, 1, next, <<>>)
               IN LabelFrom(items, i + 1, r.next,
                            Append(acc, [k |-> items[i].k, v |-> MapNode(r.items)]))
          ELSE LabelFrom(items, i + 1, next + 1,
                         Append(acc, [k |-> items[i].k, v |-> LeafNo(next)]))

\* The document with these top-level items, its leaves numbered in order.
Doc(items) == MapNode(LabelFrom(items, 1, 1, <<>>).items)

Entry(key, val) == [k |-> key, v |-> val]

SectionsOfSize(n) == IF n < 1 THEN {} ELSE {MapNode(it) : it \in ItemsOfSize(n)}

\* The documents that hold n mapping keys in all.
DocsOfSize(n) ==
  (IF n = 0 THEN {LeafNo(1), NoneDoc} ELSE {})
  \cup (IF n = 1
        THEN { Doc(<<Entry("server", LeafNo(0))>>),
               Doc(<<Entry("configurations", LeafNo(0))>>),
               Doc(<<Entry("spring", LeafNo(0))>>) }
        ELSE {})
  \cup (IF n = 2
        THEN { Doc(<<Entry("spring", MapNode(<<Entry("profiles", LeafNo(0))>>))>>) }
        ELSE {})
  \cup { Doc(<<Entry("configurations", s)>>) : s \in SectionsOfSize(n - 1) }
  \cup { Doc(<<Entry("server", LeafNo(0)), Entry("configurations", s)>>) :
           s \in SectionsOfSize(n - 2) }
  \cup { Doc(<<Entry("configurations", s), Entry("server", LeafNo(0))>>) :
           s \in SectionsOfSize(n - 2) }
  \cup { Doc(<<Entry("app", MapNode(<<Entry("configurations", s)>>))>>) :
           s \in SectionsOfSize(n - 2) }
  \cup { Doc(<<Entry("spring", MapNode(<<Entry("profiles", LeafNo(0))>>)),
               Entry("configurations", s)>>) : s \in SectionsOfSize(n - 3) }
  \cup { Doc(<<Entry("spring", MapNode(<<Entry("profiles", LeafNo(0)),
                                        Entry("configurations", s)>>))>>) :
           s \in SectionsOfSize(n - 3) }

RECURSIVE DocSeqs(_, _)
\* The sequences of c documents that hold s keys in all.
DocSeqs(c, s) ==
  IF c = 0 THEN (IF s = 0 THEN {<<>>} ELSE {})
  ELSE UNION { LET ds == DocsOfSize(s1)
                   rs == DocSeqs(c - 1, s - s1)
               IN { <<d>> \o r : d \in ds, r \in rs } :
               s1 \in 0..s }

\* What can go wrong with a file: an empty file reads as no document; a
\* file that cannot be opened or parsed shows no document to the model.
Faults(c) == IF c = 0 THEN {"none", "unreadable", "unparsable"} ELSE {"none", "unwritable"}

FilesWith(c, s) == { [docs |-> ds, fault |-> ft] : ds \in DocSeqs(c, s), ft \in Faults(c) }

RECURSIVE RepoSet(_, _, _)
\* The groups of f files with at most d documents and n keys in all.
RepoSet(f, d, n) ==
  IF f = 0 THEN {<<>>}
  ELSE UNION { LET fs == FilesWith(c[1], c[2])
                   rests == RepoSet(f - 1, d - c[1], n - c[2])
               IN { <<file>> \o rest : file \in fs, rest \in rests } :
               c \in (0..d) \X (0..n) }

NoMapping == [exists |-> FALSE, table |-> <<>>]

\* The refactoring tool is not run.
RefactorIdle ==
  /\ artifacts = <<>>
  /\ java = <<>>
  /\ self_key_mapping = <<>>
  /\ current_project = 0
  /\ rpc = "off"
  /\ projIdx = 1
  /\ refRuns = 0
  /\ javaInput = <<>>
  /\ status = <<>>
  /\ failed = {}
  /\ rewritten = {}

\* ------------------------------------------- process_all_config_files
InitObf ==
  /\ \E f \in 1..MaxFiles, c \in 0..MaxDocs, s \in 0..MaxKeys :
       LET firsts == FilesWith(c, s)
           rests == RepoSet(f - 1, MaxDocs - c, MaxKeys - s)
       IN \E first \in firsts, rest \in rests : files = <<first>> \o rest
  /\ mappingFile = NoMapping
  /\ project_mappings = <<>>
  /\ idx = 1
  /\ phase = "idle"
  /\ runs = 0
  /\ errors = {}
  /\ input = files
  /\ prevMapping = NoMapping
  /\ RefactorIdle

\* main() calls process_all_config_files: the walk finds the group's files
\* and the loop over them starts with an empty project_mappings.
StartRun ==
  /\ phase \in {"idle", "done"}
  /\ runs < MaxRuns
  /\ phase' = "loop"
  /\ idx' = 1
  /\ project_mappings' = <<>>
  /\ errors' = {}
  /\ input' = files
  /\ prevMapping' = mappingFile
  /\ UNCHANGED <<files, mappingFile, runs>>
  /\ UNCHANGED refVars

\* One iteration of the loop over the group's files, its try/except included.
ProcessFile ==
  /\ phase = "loop"
  /\ idx <= Len(files)
  /\ LET f == files[idx]
         r == obfuscate_yaml_file(f.docs)
     IN IF f.fault \in {"unreadable", "unparsable"} \/ r.err \/ f.fault = "unwritable"
        THEN /\ errors' = errors \cup {idx}
             /\ UNCHANGED <<files, project_mappings>>
        ELSE /\ files' = [files EXCEPT ![idx].docs = yaml_dump_all(r.out)]
             /\ project_mappings' = DictUpdate(project_mappings, r.map)
             /\ UNCHANGED errors
  /\ idx' = idx + 1
  /\ UNCHANGED <<mappingFile, phase, runs, input, prevMapping>>
  /\ UNCHANGED refVars

\* save_mapping: yaml.dump writes the table with its keys sorted.
save_mapping(mapping) == [exists |-> TRUE, table |-> SortItems(mapping, 1, <<>>)]

\* After the loop: the group's mapping is saved, whatever the loop met.
SaveMapping ==
  /\ phase = "loop"
  /\ idx > Len(files)
  /\ mappingFile' = save_mapping(project_mappings)
  /\ phase' = "done"
  /\ runs' = runs + 1
  /\ UNCHANGED <<files, project_mappings, idx, errors, input, prevMapping>>
  /\ UNCHANGED refVars

NextObf == StartRun \/ ProcessFile \/ SaveMapping

\* save_mapping step by step, for a reader of the file at the same time; the
\* file is artifacts[1] of the refactoring tool. open(mapping_file, 'w')
\* truncates the file.
OpenMappingFile ==
  /\ phase = "loop"
  /\ idx > Len(files)
  /\ mappingFile' = [exists |-> TRUE, table |-> <<>>]
  /\ artifacts' = [artifacts EXCEPT ![1] = mappingFile']
  /\ phase' = "saving"
  /\ UNCHANGED <<files, project_mappings, idx, runs, errors, input, prevMapping>>
  /\ UNCHANGED <<java, self_key_mapping, current_project, rpc, projIdx, refRuns,
                 javaInput, status, failed, rewritten>>

\* yaml.dump writes the table and the file is closed. (A table larger than
\* the buffer of the file reaches the disk in several parts.)
DumpMapping ==
  /\ phase = "saving"
  /\ mappingFile' = save_mapping(project_mappings)
  /\ artifacts' = [artifacts EXCEPT ![1] = mappingFile']
  /\ phase' = "done"
  /\ runs' = runs + 1
  /\ UNCHANGED <<files, project_mappings, idx, errors, input, prevMapping>>
  /\ UNCHANGED <<java, self_key_mapping, current_project, rpc, projIdx, refRuns,
                 javaInput, status, failed, rewritten>>

SpecObfuscator == InitObf /\ [][NextObf]_vars

\* ================================================== obfuscator properties
\* File i was read, transformed and written back in the current run.
Processed(i) == phase \in {"loop", "done"} /\ i < idx /\ i \notin errors

ProcessedFiles == {i \in 1..Len(files) : Processed(i)}

RECURSIVE Corresponds(_, _)
\* b is a with keys renamed at most: same leaves, same shape.
Corresponds(a, b) ==
  IF ~IsDict(a) THEN a = b
  ELSE /\ IsDict(b)
       /\ Len(b.items) = Len(a.items)
       /\ \A j \in 1..Len(a.items) :
            \E m \in 1..Len(b.items) : Corresponds(a.items[j].v, b.items[m].v)

\* C2 (as claimed): every leaf of an input document is in the written
\* document at the corresponding position, with the same value and type, and
\* no leaf is lost or added.
ValuePreservation ==
  \A i \in ProcessedFiles :
    /\ Len(files[i].docs) = Len(input[i].docs)
    /\ \A d \in 1..Len(input[i].docs) : Corresponds(input[i].docs[d], files[i].docs[d])

HasCollision(table) ==
  \E a, b \in 1..Len(table) : table[a].k # table[b].k /\ table[a].v = table[b].v

\* C3 (as claimed): when two distinct keys of the group get the same
\* obfuscated identifier, the group's pass fails with a reported error and
\* leaves its mapping artifact unwritten.
CollisionFailsLoudly ==
  (phase = "done" /\ HasCollision(project_mappings))
    => (errors # {} /\ mappingFile = prevMapping)

IsRenamingOf(key, out) ==
  out = key \/ out = generate_obfuscated_name(key)

RECURSIVE SameOrder(_, _)
SameOrder(a, b) ==
  IF ~IsDict(a) THEN TRUE
  ELSE /\ IsDict(b)
       /\ Len(b.items) = Len(a.items)
       /\ \A j \in 1..Len(a.items) :
            /\ IsRenamingOf(a.items[j].k, b.items[j].k)
            /\ SameOrder(a.items[j].v, b.items[j].v)

\* C4 (as claimed): under every mapping node of a written document the i-th
\* key is the renaming of the i-th key of the input document.
OrderingPreserved ==
  \A i \in ProcessedFiles :
    \A d \in 1..Len(input[i].docs) :
      d <= Len(files[i].docs) /\ SameOrder(input[i].docs[d], files[i].docs[d])

\* C5 (as claimed): a second run over the files the first run left changes
\* neither the documents nor the group's mapping artifact.
RerunStable ==
  (phase = "done" /\ runs >= 2) => (files = input /\ mappingFile = prevMapping)

RECURSIVE OutsideUnchanged(_, _)
\* Outside the subtrees under a 'configurations' key, b has the keys of a.
OutsideUnchanged(a, b) ==
  IF ~IsDict(a) THEN TRUE
  ELSE /\ IsDict(b)
       /\ DictKeys(b.items) = DictKeys(a.items)
       /\ \A key \in DictKeys(a.items) :
            key # "configurations"
              => OutsideUnchanged(DictGet(a.items, key), DictGet(b.items, key))

RECURSIVE KeysUnder(_, _)
\* The keys of node that lie under a 'configurations' key (inside: node
\* itself lies under one).
KeysUnder(node, inside) ==
  IF ~IsDict(node) THEN {}
  ELSE UNION { (IF inside THEN {node.items[j].k} ELSE {})
               \cup KeysUnder(node.items[j].v,
                              inside \/ node.items[j].k = "configurations") :
               j \in 1..Len(node.items) }

InsideKeys(S) ==
  UNION { UNION { KeysUnder(input[i].docs[d], FALSE) : d \in 1..Len(input[i].docs) } :
          i \in S }

\* C8: a key of a written document differs from the input's only inside a
\* subtree under 'configurations'; every other key, 'configurations' and the
\* spring/profiles markers included, is written as it was, and only keys
\* inside such a subtree get a mapping entry.
KeySpaceScoping ==
  /\ \A i \in ProcessedFiles :
       /\ Len(files[i].docs) = Len(input[i].docs)
       /\ \A d \in 1..Len(input[i].docs) :
            OutsideUnchanged(input[i].docs[d], files[i].docs[d])
  /\ phase \in {"loop", "done"} => DictKeys(project_mappings) \subseteq InsideKeys(ProcessedFiles)
  /\ phase = "done" => DictKeys(mappingFile.table) \subseteq InsideKeys(ProcessedFiles)

\* Every entry of the table maps its key k to generate(k).
AllGenerated(table) ==
  \A j \in 1..Len(table) : table[j].v = generate_obfuscated_name(table[j].k)

\* C13 (as claimed): the mapping table of a group has an entry for exactly
\* the keys found, at any depth, under a 'configurations' key in a document
\* of a successfully processed file, each key k mapped to generate(k), also
\* while documents and files are being merged.
MappingComplete ==
  /\ phase \in {"loop", "done"} =>
       /\ AllGenerated(project_mappings)
       /\ DictKeys(project_mappings) = InsideKeys(ProcessedFiles)
  /\ phase = "done" =>
       /\ AllGenerated(mappingFile.table)
       /\ DictKeys(mappingFile.table) = InsideKeys(ProcessedFiles)

\* A processed profile document whose keys under 'configurations' were
\* renamed while 'spring', 'profiles' and 'configurations' stand.
KeySpaceScopingWitness ==
  \E i \in ProcessedFiles :
    \E d \in 1..Len(input[i].docs) :
      LET a == input[i].docs[d]
          b == files[i].docs[d]
      IN /\ IsDict(a) /\ IsDict(b)
         /\ {"spring", "configurations"} \subseteq DictKeys(a.items)
         /\ {"spring", "configurations"} \subseteq DictKeys(b.items)
         /\ DictGet(b.items, "spring") = DictGet(a.items, "spring")
         /\ DictGet(b.items, "configurations") # DictGet(a.items, "configurations")
         /\ "profiles" \in DictKeys(DictGet(b.items, "spring").items)
         /\ project_mappings # <<>>

\* ======================================================= source rewriter
\* A source text is a sequence of characters (strings of length one).
\* The characters of the key strings the source rewriter meets.
Chars(str) ==
  CASE str = "timeout" -> <<"t", "i", "m", "e", "o", "u", "t">>
    [] str = "dc2" -> <<"d", "c", "2">>
    [] str = "maxAge" -> <<"m", "a", "x", "A", "g", "e">>
    [] str = "*" -> <<"*">>
    [] str = "cfg_90272dda" -> <<"c", "f", "g", "_", "9", "0", "2", "7", "2", "d", "d", "a">>
    [] str = "cfg_ef420dc2" -> <<"c", "f", "g", "_", "e", "f", "4", "2", "0", "d", "c", "2">>
    [] str = "cfg_1e0ac3b9" -> <<"c", "f", "g", "_", "1", "e", "0", "a", "c", "3", "b", "9">>
    [] str = "cfg_3389dae3" -> <<"c", "f", "g", "_", "3", "3", "8", "9", "d", "a", "e", "3">>

LowerCase ==
  <<"a", "b", "c", "d", "e", "f", "g", "h", "i", "j", "k", "l", "m",
    "n", "o", "p", "q", "r", "s", "t", "u", "v", "w", "x", "y", "z">>

UpperCase ==
  <<"A", "B", "C", "D", "E", "F", "G", "H", "I", "J", "K", "L", "M",
    "N", "O", "P", "Q", "R", "S", "T", "U", "V", "W", "X", "Y", "Z">>

Digits == {"0", "1", "2", "3", "4", "5", "6", "7", "8", "9"}

IndexIn(seq, c) == CHOOSE i \in 1..Len(seq) : seq[i] = c

InSeq(seq, c) == \E i \in 1..Len(seq) : seq[i] = c

ToUpper(c) == IF InSeq(LowerCase, c) THEN UpperCase[IndexIn(LowerCase, c)] ELSE c

ToLower(c) == IF InSeq(UpperCase, c) THEN LowerCase[IndexIn(UpperCase, c)] ELSE c

\* str.capitalize(): the first character upper-cased, the others lower-cased.
capitalize(str) ==
  [i \in 1..Len(str) |-> IF i = 1 THEN ToUpper(str[i]) ELSE ToLower(str[i])]

\* \s and \w of Python's re.
IsSpace(c) == c \in {" ", "\n", "\t"}

IsWord(c) == InSeq(LowerCase, c) \/ InSeq(UpperCase, c) \/ c \in Digits \/ c = "_"

\* ---- a regular expression with its replacement template, as a sequence of
\* elements: a literal, \s+, \s*, \w+, c*; each matched part is kept in the
\* replacement (it lies in a group the template copies) or dropped, and
\* "ins" puts the template's own text there.
Keep(str) == [t |-> "lit", s |-> str, out |-> "keep"]

Drop(str) == [t |-> "lit", s |-> str, out |-> "drop"]

Ins(str) == [t |-> "ins", s |-> str, out |-> "keep"]

Spaces1 == [t |-> "sp1", s |-> <<>>, out |-> "keep"]

Spaces0 == [t |-> "sp0", s |-> <<>>, out |-> "keep"]

Spaces0Drop == [t |-> "sp0", s |-> <<>>, out |-> "drop"]

Word1 == [t |-> "w1", s |-> <<>>, out |-> "keep"]

StarDrop(c) == [t |-> "star", s |-> <<c>>, out |-> "drop"]

InClass(e, c) ==
  CASE e.t \in {"sp1", "sp0"} -> IsSpace(c)
    [] e.t = "w1" -> IsWord(c)
    [] e.t = "star" -> c = e.s[1]

RECURSIVE RunLen(_, _, _)
\* The length of the longest run of characters of e's class at text[i..].
RunLen(text, i, e) ==
  IF i <= Len(text) /\ InClass(e, text[i]) THEN 1 + RunLen(text, i + 1, e) ELSE 0

NoMatch == [ok |-> FALSE, end |-> 0, out |-> <<>>]

\* What a rewrite of one text gives: raised (a re.error left the method),
\* or the new content and whether any pattern matched.
Rewritten(content, updated) == [raised |-> FALSE, content |-> content, updated |-> updated]

RewriteRaised == [raised |-> TRUE, content |-> <<>>, updated |-> FALSE]

RECURSIVE MatchAt(_, _, _, _, _), MatchRun(_, _, _, _, _, _)
\* pat[j] is a repetition and the run of its class at text[i..] has length n.
MatchRun(text, i, pat, j, acc, n) ==
  IF pat[j].t \in {"sp1", "w1"} /\ n = 0 THEN NoMatch
  ELSE MatchAt(text, i + n, pat, j + 1,
               IF pat[j].out = "keep" THEN acc \o SubSeq(text, i, i + n - 1) ELSE acc)

\* The match of pat[j..] at text[i..]: where it ends and what replaces it.
\* No element of the patterns below can begin where its repeated neighbour
\* could go on, so the greedy match is the only one.
MatchAt(text, i, pat, j, acc) ==
  IF j > Len(pat) THEN [ok |-> TRUE, end |-> i, out |-> acc]
  ELSE IF pat[j].t = "ins" THEN MatchAt(text, i, pat, j + 1, acc \o pat[j].s)
  ELSE IF pat[j].t = "lit"
  THEN IF /\ i + Len(pat[j].s) - 1 <= Len(text)
          /\ SubSeq(text, i, i + Len(pat[j].s) - 1) = pat[j].s
       THEN MatchAt(text, i + Len(pat[j].s), pat, j + 1,
                    IF pat[j].out = "keep" THEN acc \o pat[j].s ELSE acc)
       ELSE NoMatch
  ELSE MatchRun(text, i, pat, j, acc, RunLen(text, i, pat[j]))

\* The positions from i on where the pattern matches.
MatchPositions(text, i, pat, notAfterDot) ==
  { k \in i..Len(text) : /\ ~(notAfterDot /\ k > 1 /\ text[k - 1] = ".")
                         /\ MatchAt(text, k, pat, 1, <<>>).ok }

Minimum(ks) == CHOOSE k \in ks : \A j \in ks : k <= j

RECURSIVE SubFrom(_, _, _, _, _, _), SubAt(_, _, _, _, _, _, _), SubStep(_, _, _, _, _)
\* m is the leftmost match: it is replaced, and the search goes on behind it.
SubStep(text, pat, notAfterDot, acc, m) ==
  SubFrom(text, m.end, pat, notAfterDot, acc \o m.out, TRUE)

\* The text up to the leftmost of the matches ks is copied.
SubAt(text, i, pat, notAfterDot, acc, updated, ks) ==
  IF ks = {} THEN Rewritten(acc \o SubSeq(text, i, Len(text)), updated)
  ELSE SubStep(text, pat, notAfterDot, acc \o SubSeq(text, i, Minimum(ks) - 1),
               MatchAt(text, Minimum(ks), pat, 1, <<>>))

\* The matches are found from left to right and do not overlap.
SubFrom(text, i, pat, notAfterDot, acc, updated) ==
  SubAt(text, i, pat, notAfterDot, acc, updated, MatchPositions(text, i, pat, notAfterDot))

\* re.findall, and re.sub where it found a match, with one pattern on
\* r.content: the new content, and updated set if there was a match.
\* notAfterDot is the look-behind (?<!\.) in front of the pattern.
re_sub(pat, r, notAfterDot) == SubFrom(r.content, 1, pat, notAfterDot, <<>>, r.updated)

\* ---- the literals of the patterns
str_private == <<"p", "r", "i", "v", "a", "t", "e">>

str_return == <<"r", "e", "t", "u", "r", "n">>

str_this_dot == <<"t", "h", "i", "s", ".">>

str_get == <<"g", "e", "t">>

str_set == <<"s", "e", "t">>

\* ---- update_java_file: the patterns of the first loop
field_pattern(original_key, obfuscated_key) ==
  << Keep(str_private), Spaces1, Word1, Spaces1, Drop(original_key),
     Ins(obfuscated_key), Spaces0, Keep(<<";">>) >>

getter_ref_pattern(original_key, obfuscated_key) ==
  << Keep(str_return), Spaces1, Drop(original_key), Ins(obfuscated_key),
     Spaces0, Keep(<<";">>) >>

setter_ref_pattern(original_key, obfuscated_key) ==
  << Keep(str_this_dot), Drop(original_key), Ins(obfuscated_key), Spaces0,
     Keep(<<"=">>), Spaces0, Drop(original_key), Ins(obfuscated_key), Spaces0,
     Keep(<<";">>) >>

\* The key goes into this pattern and into the call patterns without
\* re.escape. The keys of the model are words, but for the key "*": a key
\* that starts with "*" makes it repeat what stands before it, and is a
\* re.error ("nothing to repeat") right after a "(".
StartsWithRepeat(key) == key # <<>> /\ key[1] = "*"

param_pattern(original_key, obfuscated_key) ==
  << Drop(original_key), Ins(obfuscated_key), Spaces0Drop, Keep(<<")">>) >>

\* ---- update_java_file: the patterns of the second loop
getter_pattern(original_method_key, obfuscated_method_key) ==
  << Keep(str_get), Drop(original_method_key), Ins(obfuscated_method_key),
     Spaces0, Keep(<<"(">>) >>

setter_pattern(original_method_key, obfuscated_method_key) ==
  << Keep(str_set), Drop(original_method_key), Ins(obfuscated_method_key),
     Spaces0, Keep(<<"(">>) >>

\* ---- update_java_method_calls: prefix, unescaped key and suffix, replaced
\* as a whole by the new call text.
call_pattern(prefix, original_method_key, suffix, replacement) ==
  IF StartsWithRepeat(original_method_key)
  THEN << Drop(SubSeq(prefix, 1, Len(prefix) - 1)), StarDrop(prefix[Len(prefix)]),
          Drop(Tail(original_method_key) \o suffix), Ins(replacement) >>
  ELSE << Drop(prefix \o original_method_key \o suffix), Ins(replacement) >>

\* The four substitutions of the first loop for one entry, in their order.
FieldPasses(original_key, obfuscated_key, r) ==
  re_sub(param_pattern(original_key, obfuscated_key),
         re_sub(setter_ref_pattern(original_key, obfuscated_key),
                re_sub(getter_ref_pattern(original_key, obfuscated_key),
                       re_sub(field_pattern(original_key, obfuscated_key), r, FALSE),
                       FALSE),
                FALSE),
         FALSE)

RECURSIVE FieldLoop_unskipped(_, _, _)
\* The first loop, had it no test of original_key != obfuscated_key.
FieldLoop_unskipped(table, i, r) ==
  IF i > Len(table) THEN r
  ELSE IF StartsWithRepeat(Chars(table[i].k)) THEN RewriteRaised
  ELSE FieldLoop_unskipped(table, i + 1,
                           FieldPasses(Chars(table[i].k), Chars(table[i].v), r))

RECURSIVE FieldLoop(_, _, _)
\* The first loop of update_java_file over key_mapping.items().
FieldLoop(table, i, r) ==
  IF i > Len(table) THEN r
  ELSE IF table[i].k = table[i].v THEN FieldLoop(table, i + 1, r)
  ELSE IF StartsWithRepeat(Chars(table[i].k)) THEN RewriteRaised
  ELSE FieldLoop(table, i + 1, FieldPasses(Chars(table[i].k), Chars(table[i].v), r))

\* The two substitutions of the second loop for one entry.
SignaturePasses(original_method_key, obfuscated_method_key, r) ==
  re_sub(setter_pattern(original_method_key, obfuscated_method_key),
         re_sub(getter_pattern(original_method_key, obfuscated_method_key), r, FALSE),
         FALSE)

RECURSIVE SignatureLoop(_, _, _)
\* The second loop of update_java_file over key_mapping.items().
SignatureLoop(table, i, r) ==
  IF i > Len(table) THEN r
  ELSE IF table[i].k = table[i].v THEN SignatureLoop(table, i + 1, r)
  ELSE SignatureLoop(table, i + 1,
                     SignaturePasses(capitalize(Chars(table[i].k)),
                                     capitalize(Chars(table[i].v)), r))

\* The second loop runs if the first one raised nothing.
SignaturesAfter(table, first) ==
  IF first.raised THEN RewriteRaised ELSE SignatureLoop(table, 1, first)

\* update_java_file on the content read from the file.
update_java_file(content, table) ==
  SignaturesAfter(table, FieldLoop(table, 1, Rewritten(content, FALSE)))

\* The four substitutions of update_java_method_calls for one entry.
CallPasses(original_method_key, obfuscated_method_key, r) ==
  re_sub(call_pattern(str_set, original_method_key, <<"(">>,
                      str_set \o obfuscated_method_key \o <<"(">>),
         re_sub(call_pattern(<<".">> \o str_set, original_method_key, <<"(">>,
                             <<".">> \o str_set \o obfuscated_method_key \o <<"(">>),
                re_sub(call_pattern(str_get, original_method_key, <<"(", ")">>,
                                    str_get \o obfuscated_method_key \o <<"(", ")">>),
                       re_sub(call_pattern(<<".">> \o str_get, original_method_key,
                                           <<"(", ")">>,
                                           <<".">> \o str_get \o obfuscated_method_key
                                             \o <<"(", ")">>),
                              r, FALSE),
                       TRUE),
                FALSE),
         TRUE)

RECURSIVE CallLoop(_, _, _)
\* The loop of update_java_method_calls over key_mapping.items().
CallLoop(table, i, r) ==
  IF i > Len(table) THEN r
  ELSE IF table[i].k = table[i].v THEN CallLoop(table, i + 1, r)
  ELSE CallLoop(table, i + 1,
                CallPasses(capitalize(Chars(table[i].k)), capitalize(Chars(table[i].v)), r))

\* update_java_method_calls on the content read from the file.
update_java_method_calls(content, table) == CallLoop(table, 1, Rewritten(content, FALSE))

\* ------------------------------------------------------------ input texts
\* The accessor suffix of the JavaBeans convention: the first letter
\* upper-cased, the others as they are.
Camel(key) == <<ToUpper(key[1])>> \o Tail(key)

str_int == <<"i", "n", "t">>

str_my == <<"m", "y">>

str_for == <<"f", "o", "r">>

FragmentKinds ==
  { "field", "fieldInit", "return", "assign", "param", "getter", "setter",
    "getterCall", "setterCall", "longParam", "longGetter" }

\* One binding site of the key, or an identifier that only contains the key
\* or its accessor name, as Java source text.
Fragment(kind, key) ==
  CASE kind = "field" -> str_private \o <<" ">> \o str_int \o <<" ">> \o key \o <<";">>
    [] kind = "fieldInit" ->
         str_private \o <<" ">> \o str_int \o <<" ">> \o key \o <<" ", "=", " ", "0", ";">>
    [] kind = "return" -> str_return \o <<" ">> \o key \o <<";">>
    [] kind = "assign" -> str_this_dot \o key \o <<" ", "=", " ">> \o key \o <<";">>
    [] kind = "param" -> <<"(">> \o str_int \o <<" ">> \o key \o <<")">>
    [] kind = "getter" -> str_get \o Camel(key) \o <<"(", ")">>
    [] kind = "setter" -> str_set \o Camel(key) \o <<"(">>
    [] kind = "getterCall" -> <<"c", ".">> \o str_get \o Camel(key) \o <<"(", ")">>
    [] kind = "setterCall" -> <<"c", ".">> \o str_set \o Camel(key) \o <<"(">>
    [] kind = "longParam" -> <<"(">> \o str_my \o key \o <<")">>
    [] kind = "longGetter" -> str_for \o str_get \o Camel(key) \o <<"(">>

\* A call that has nothing to do with any key.
PlainCall == <<"m", ".", "g", "e", "t", "(", ")", ";">>

SourceKeys == {"timeout", "dc2", "maxAge"}

\* The statements a text may have about one key.
Fragments(key) == {Fragment(kind, Chars(key)) : kind \in FragmentKinds} \cup {PlainCall}

RECURSIVE TextsOf(_, _)
\* The texts of n statements about one key, one space between two statements.
TextsOf(key, n) ==
  IF n = 0 THEN {<<>>}
  ELSE LET rests == TextsOf(key, n - 1)
       IN {IF rest = <<>> THEN f ELSE f \o <<" ">> \o rest :
             f \in Fragments(key), rest \in rests}

JavaFile(content, config, fault) == [content |-> content, config |-> config, fault |-> fault]

\* ----------------------------------------------------------- input tables
TableKeys == <<"*", "dc2", "maxAge", "timeout">>

\* An entry as the obfuscator records it.
Generated(key) == [k |-> key, v |-> generate_obfuscated_name(key)]

\* An entry that maps a key to itself, as a mapping file written by hand or
\* for keys that are obfuscated already may hold.
Identity(key) == [k |-> key, v |-> key]

RECURSIVE TablesFrom(_, _)
\* The tables of n entries with keys TableKeys[from..], in the order
\* save_mapping writes them (sorted by key) and yaml.safe_load reads them.
TablesFrom(from, n) ==
  IF n = 0 THEN {<<>>}
  ELSE UNION { LET rests == TablesFrom(j + 1, n - 1)
               IN {<<entry>> \o rest :
                     entry \in {Generated(TableKeys[j]), Identity(TableKeys[j])},
                     rest \in rests} :
               j \in from..Len(TableKeys) }

Artifact(table) == [exists |-> TRUE, table |-> table]

\* ------------------------------------------------------------ ConfigRefactor
NumProjects == Len(java)

\* load_mapping, had it gone on to config-key-mapping.yaml also when the
\* project's own file loads as {}.
load_mapping_past_empty(project_name) ==
  IF project_name # 0 /\ artifacts[project_name].exists
     /\ artifacts[project_name].table # <<>>
  THEN artifacts[project_name].table
  ELSE IF artifacts[0].exists THEN artifacts[0].table
  ELSE <<>>

\* load_mapping with project_name: the project's own file if it exists (an
\* empty file loads as {}), else config-key-mapping.yaml, else {}.
\* project_name 0 is: no name found.
load_mapping(project_name) ==
  IF project_name # 0 /\ artifacts[project_name].exists
  THEN artifacts[project_name].table
  ELSE IF artifacts[0].exists THEN artifacts[0].table
  ELSE <<>>

\* main(): a ConfigRefactor is constructed. __init__ loads the mapping of
\* the first *-key-mapping.yaml that os.listdir lists in the current
\* directory, whichever that is.
Construct ==
  /\ rpc \in {"new", "done", "crashed"}
  /\ refRuns < MaxRuns
  /\ \E item \in 0..NumProjects : self_key_mapping' = load_mapping(item)
  /\ current_project' = 0
  /\ rpc' = "ready"
  /\ projIdx' = 1
  /\ refRuns' = refRuns + 1
  /\ javaInput' = java
  /\ status' = [p \in 1..NumProjects |-> "pending"]
  /\ failed' = {}
  /\ UNCHANGED <<artifacts, java, rewritten>>
  /\ UNCHANGED obfVars

\* process_all_projects up to its loop: nothing is done with an empty table.
ProcessAllProjects ==
  /\ rpc = "ready"
  /\ rpc' = IF self_key_mapping = <<>> \/ NumProjects = 0 THEN "done" ELSE "project"
  /\ UNCHANGED <<artifacts, java, self_key_mapping, current_project, projIdx, refRuns,
                 javaInput, status, failed, rewritten>>
  /\ UNCHANGED obfVars

\* The loop goes on to the project after projIdx, or ends.
AfterProject == IF projIdx < NumProjects THEN "project" ELSE "done"

\* The head of the loop over the projects: the mapping is loaded again for
\* the project, and a project with an empty mapping is skipped.
LoadProject ==
  /\ rpc = "project"
  /\ LET table == load_mapping(projIdx)
     IN /\ self_key_mapping' = table
        /\ IF table = <<>>
           THEN /\ rpc' = AfterProject
                /\ projIdx' = IF projIdx < NumProjects THEN projIdx + 1 ELSE projIdx
                /\ status' = [status EXCEPT ![projIdx] = "skipped"]
           ELSE /\ rpc' = "config"
                /\ UNCHANGED <<projIdx, status>>
  /\ current_project' = projIdx
  /\ UNCHANGED <<artifacts, java, refRuns, javaInput, failed, rewritten>>
  /\ UNCHANGED obfVars

\* What a pass over the files of a project gives: the files, the files
\* whose processing failed, and whether an exception ended the pass.
Pass(fs, bad, raised) == [files |-> fs, failed |-> bad, raised |-> raised]

Failed(w, i) == Pass(w.files, w.failed \cup {i}, FALSE)

\* The end of update_java_file and of update_java_method_calls: the file is
\* written if a pattern matched and the content differs.
WriteBack(w, i, r) ==
  IF r.updated /\ r.content # w.files[i].content
  THEN IF w.files[i].fault = "unwritable" THEN Failed(w, i)
       ELSE Pass([w.files EXCEPT ![i].content = r.content], w.failed, FALSE)
  ELSE w

RECURSIVE ConfigurationClassesLoop(_, _, _), ConfigurationClass(_, _, _, _)
\* update_java_file gave r for file i: the exception leaves the loop.
ConfigurationClass(w, i, table, r) ==
  IF r.raised THEN Pass(w.files, w.failed \cup {i}, TRUE)
  ELSE ConfigurationClassesLoop(WriteBack(w, i, r), i + 1, table)

\* update_configuration_properties: find_configuration_classes keeps the
\* files under src it can read that have the annotation, and update_java_file
\* is called on each.
ConfigurationClassesLoop(w, i, table) ==
  IF i > Len(w.files) THEN w
  ELSE IF w.files[i].fault = "unreadable"
  THEN ConfigurationClassesLoop(Failed(w, i), i + 1, table)
  ELSE IF ~w.files[i].config THEN ConfigurationClassesLoop(w, i + 1, table)
  ELSE ConfigurationClass(w, i, table, update_java_file(w.files[i].content, table))

update_configuration_properties(fs, table) ==
  ConfigurationClassesLoop(Pass(fs, {}, FALSE), 1, table)

RECURSIVE JavaFilesLoop(_, _, _)
\* update_all_java_files: update_java_method_calls on every Java file.
JavaFilesLoop(w, i, table) ==
  IF i > Len(w.files) THEN w
  ELSE IF w.files[i].fault = "unreadable" THEN JavaFilesLoop(Failed(w, i), i + 1, table)
  ELSE JavaFilesLoop(WriteBack(w, i, update_java_method_calls(w.files[i].content, table)),
                     i + 1, table)

update_all_java_files(fs, table) == JavaFilesLoop(Pass(fs, {}, FALSE), 1, table)

\* The files of the project are as the pass w left them.
PassDone(w) ==
  /\ java' = [java EXCEPT ![projIdx] = w.files]
  /\ failed' = failed \cup {<<projIdx, i>> : i \in w.failed}
  /\ rpc' = IF w.raised THEN "crashed" ELSE IF rpc = "config" THEN "calls" ELSE AfterProject
  /\ status' = [status EXCEPT ![projIdx] =
                  IF w.raised THEN "crashed" ELSE IF rpc = "config" THEN @ ELSE "done"]

\* The call of update_configuration_properties for the project; a re.error
\* raised in it is caught nowhere and ends the run.
UpdateConfigurationProperties ==
  /\ rpc = "config"
  /\ PassDone(update_configuration_properties(java[projIdx], self_key_mapping))
  /\ UNCHANGED <<artifacts, self_key_mapping, current_project, projIdx, refRuns,
                 javaInput, rewritten>>
  /\ UNCHANGED obfVars

\* The call of update_all_java_files for the project, and the loop's step to
\* the next project.
UpdateAllJavaFiles ==
  /\ rpc = "calls"
  /\ PassDone(update_all_java_files(java[projIdx], self_key_mapping))
  /\ rewritten' = rewritten \cup {projIdx}
  /\ projIdx' = IF projIdx < NumProjects THEN projIdx + 1 ELSE projIdx
  /\ UNCHANGED <<artifacts, self_key_mapping, current_project, refRuns, javaInput>>
  /\ UNCHANGED obfVars

NextRefactor ==
  \/ Construct
  \/ ProcessAllProjects
  \/ LoadProject
  \/ UpdateConfigurationProperties
  \/ UpdateAllJavaFiles

\* The obfuscator is not run.
ObfuscatorIdle ==
  /\ files = <<>>
  /\ mappingFile = NoMapping
  /\ project_mappings = <<>>
  /\ idx = 1
  /\ phase = "idle"
  /\ runs = 0
  /\ errors = {}
  /\ input = <<>>
  /\ prevMapping = NoMapping

RefactorNew ==
  /\ self_key_mapping = <<>>
  /\ current_project = 0
  /\ rpc = "new"
  /\ projIdx = 1
  /\ refRuns = 0
  /\ javaInput = java
  /\ status = [p \in 1..NumProjects |-> "pending"]
  /\ failed = {}
  /\ rewritten = {}

\* One project with one configuration class and its own mapping file.
InitRewrite ==
  /\ \E key \in SourceKeys, n \in 0..MaxFrags, e \in 0..MaxEntries :
       LET texts == TextsOf(key, n)
           tables == TablesFrom(1, e)
       IN \E content \in texts, table \in tables :
            /\ java = << <<JavaFile(content, TRUE, "none")>> >>
            /\ artifacts = [p \in 0..1 |-> IF p = 0 THEN NoMapping ELSE Artifact(table)]
  /\ RefactorNew
  /\ ObfuscatorIdle

SpecRewrite == InitRewrite /\ [][NextRefactor]_vars

\* ------------------------------------------------------------- a workspace
\* A statement the table of the workspace renames, in a class and at a call.
WorkspaceTexts ==
  {Fragment("field", Chars("timeout")), Fragment("getterCall", Chars("timeout"))}

\* A file is a configuration class or not; a file that cannot be read shows
\* no annotation.
WorkspaceFiles ==
  {JavaFile(content, config, fault) :
     content \in WorkspaceTexts, config \in BOOLEAN, fault \in {"none", "unwritable"}}
  \cup {JavaFile(content, FALSE, "unreadable") : content \in WorkspaceTexts}

ProjectArtifacts ==
  { NoMapping, Artifact(<<>>), Artifact(<<Generated("timeout")>>),
    Artifact(<<Generated("*"), Generated("timeout")>>) }

GlobalArtifacts == {NoMapping, Artifact(<<>>), Artifact(<<Generated("timeout")>>)}

RECURSIVE JavaOf(_, _)
\* The Java files of n projects, at most budget files in all.
JavaOf(n, budget) ==
  IF n = 0 THEN {<<>>}
  ELSE UNION { LET firsts == [1..c -> WorkspaceFiles]
                   rests == JavaOf(n - 1, budget - c)
               IN {<<first>> \o rest : first \in firsts, rest \in rests} :
               c \in 0..budget }

\* A workspace of Maven projects, each with or without its mapping file.
InitRefactor ==
  /\ \E n \in 1..MaxProjects :
       LET workspaces == JavaOf(n, MaxJava)
       IN \E js \in workspaces, global \in GlobalArtifacts, own \in [1..n -> ProjectArtifacts] :
            /\ java = js
            /\ artifacts = [p \in 0..n |-> IF p = 0 THEN global ELSE own[p]]
  /\ RefactorNew
  /\ ObfuscatorIdle

SpecRefactor == InitRefactor /\ [][NextRefactor]_vars

\* ==================================================== refactoring properties
\* The identifiers of a text, from left to right.
TokenStarts(text) ==
  {i \in 1..Len(text) : IsWord(text[i]) /\ (i = 1 \/ ~IsWord(text[i - 1]))}

TokenAt(text, i) == SubSeq(text, i, i + RunLen(text, i, Word1) - 1)

NthStart(starts, r) == CHOOSE i \in starts : Cardinality({j \in starts : j <= i}) = r

TokensFrom(text, starts) ==
  [r \in 1..Cardinality(starts) |-> TokenAt(text, NthStart(starts, r))]

Tokens(text) == TokensFrom(text, TokenStarts(text))

\* The names bound to a key: the key and its accessors, named with the first
\* letter of the key upper-cased.
BoundNames(key) == {key, str_get \o Camel(key), str_set \o Camel(key)}

RenamedEntries(table) == {i \in 1..Len(table) : table[i].k # table[i].v}

\* Project p went through both passes in this run.
WentThrough(p) == status[p] = "done"

\* C1 (as claimed): the rewrite of a text that the same table has rewritten
\* before returns the text unchanged: a project that a run went through is
\* left as it is by every pass of every later run.
IdempotentRewrite ==
  [][(rpc \in {"config", "calls"} /\ projIdx \in rewritten) => (java' = java)]_vars

CountIn(tokens, names) == Cardinality({r \in 1..Len(tokens) : tokens[r] \in names})

SitesConsistent(before, after, names) ==
  CountIn(after, names) = 0 \/ CountIn(after, names) = CountIn(before, names)

\* C6 (as claimed): after a file is rewritten, for every entry of the table
\* either no site of the file uses a name bound to the original key any
\* more, or all of them still do.
PerKeyConsistency ==
  \A p \in 1..NumProjects :
    WentThrough(p) =>
      \A f \in 1..Len(java[p]), e \in RenamedEntries(load_mapping(p)) :
        SitesConsistent(Tokens(javaInput[p][f].content), Tokens(java[p][f].content),
                        BoundNames(Chars(load_mapping(p)[e].k)))

\* The identifiers the table may replace: a key, or an accessor name made of
\* a key, by the naming rule or as capitalize() makes it.
Renamable(table) ==
  UNION { BoundNames(Chars(table[e].k))
          \cup {str_get \o capitalize(Chars(table[e].k)),
                str_set \o capitalize(Chars(table[e].k))} : e \in RenamedEntries(table) }

TokensSafe(before, after, names) ==
  /\ Len(after) = Len(before)
  /\ \A r \in 1..Len(before) : after[r] # before[r] => before[r] \in names

\* C7 (as claimed): the rewrite changes an identifier only if the whole
\* identifier is a key of the table or an accessor name of one; a longer
\* identifier that contains one is left as it is.
WholeTokenSafety ==
  \A p \in 1..NumProjects :
    WentThrough(p) =>
      \A f \in 1..Len(java[p]) :
        TokensSafe(Tokens(javaInput[p][f].content), Tokens(java[p][f].content),
                   Renamable(load_mapping(p)))

\* The mapping file of the project's group is missing or empty.
MissingOrEmpty(p) == ~artifacts[p].exists \/ artifacts[p].table = <<>>

\* Nothing is loaded for project p and none of its files is modified.
NoOpFor(p) ==
  /\ current_project = p => self_key_mapping = <<>>
  /\ java[p] = javaInput[p]

\* C9 (as claimed): when the mapping file of a project's group is missing or
\* empty, loading it gives an empty table and no file of the project is
\* modified.
MissingMappingNoOp == \A p \in 1..NumProjects : MissingOrEmpty(p) => NoOpFor(p)

\* The project's mapping file is empty, or it is missing and the global
\* mapping file is missing or empty too.
NothingToLoad(p) ==
  IF artifacts[p].exists THEN artifacts[p].table = <<>>
  ELSE ~artifacts[0].exists \/ artifacts[0].table = <<>>

\* C9 (amended): when the mapping file of a project's group is empty, or is
\* missing while the global mapping file is missing or empty as well,
\* loading gives an empty table and no file of the project is modified.
NoMappingNoOp == \A p \in 1..NumProjects : NothingToLoad(p) => NoOpFor(p)

\* A run reached such a project, skipped it, and rewrote another project.
NoMappingNoOpWitness ==
  \E p, q \in 1..NumProjects :
    /\ NothingToLoad(p)
    /\ current_project = p
    /\ status[p] = "skipped"
    /\ java[p] # <<>>
    /\ status[q] = "done"
    /\ java[q] # javaInput[q]

\* C10 (as claimed): a file whose processing failed is left unmodified, and
\* the other files of its group are still processed in the same run; in the
\* obfuscator and in the refactoring tool.
FailureIsolation ==
  /\ phase = "done" =>
       \A i \in errors :
         /\ files[i] = input[i]
         /\ \A j \in 1..Len(files) : j \notin errors => Processed(j)
  /\ rpc \in {"done", "crashed"} =>
       \A pf \in failed :
         /\ java[pf[1]][pf[2]] = javaInput[pf[1]][pf[2]]
         /\ \A j \in 1..Len(java[pf[1]]) : j # pf[2] => WentThrough(pf[1])

\* Every identifier of the text that is the name `from` is the name `to` in
\* the rewritten text.
Replaced(before, after, from, to) ==
  \A r \in 1..Len(before) :
    before[r] = from => (r <= Len(after) /\ after[r] = to)

\* C12 (as claimed): for every entry with original # obfuscated the accessor
\* names that are replaced are get/set followed by the original key with only
\* its first letter upper-cased, and they become get/set followed by the
\* obfuscated name with only its first letter upper-cased.
AccessorNameRule ==
  \A p \in 1..NumProjects :
    WentThrough(p) =>
      \A f \in 1..Len(java[p]), e \in RenamedEntries(load_mapping(p)) :
        \A verb \in {str_get, str_set} :
          Replaced(Tokens(javaInput[p][f].content), Tokens(java[p][f].content),
                   verb \o Camel(Chars(load_mapping(p)[e].k)),
                   verb \o Camel(Chars(load_mapping(p)[e].v)))

\* The mapping file of the project's group holds entries.
HasOwnTable(p) == artifacts[p].exists /\ artifacts[p].table # <<>>

\* C14 (as claimed): a project is rewritten with the table of its own group
\* only, and a project whose group has a non-empty mapping file is processed
\* by a run, whatever the mapping files of the other groups and the global
\* one are.
GroupIndependence ==
  \A p \in 1..NumProjects :
    /\ WentThrough(p) => artifacts[p].exists
    /\ (rpc = "done" /\ HasOwnTable(p)) => WentThrough(p)

\* The entries of the table that rename their key.
WithoutIdentity(table) == SelectSeq(table, LAMBDA entry : entry.k # entry.v)

\* The files of a project after both passes of a run with the table.
BothPasses(fs, table) ==
  update_all_java_files(update_configuration_properties(fs, table).files, table).files

\* No pass of the table finds anything to substitute in the text.
NoSubstitution(content, table) ==
  /\ update_java_file(content, table) = Rewritten(content, FALSE)
  /\ update_java_method_calls(content, table) = Rewritten(content, FALSE)

\* The table has entries, each of them mapping a key to itself.
IdentityOnly(table) == table # <<>> /\ RenamedEntries(table) = {}

IdentitySkippedFor(p, table) ==
  /\ WentThrough(p) => java[p] = BothPasses(javaInput[p], WithoutIdentity(table))
  /\ IdentityOnly(table) =>
       /\ java[p] = javaInput[p]
       /\ status[p] # "crashed"
       /\ \A f \in 1..Len(java[p]) : NoSubstitution(java[p][f].content, table)

\* C15: an entry whose original key equals its obfuscated name causes no
\* substitution in any pass: a run rewrites a project as the table without
\* such entries does, and with a table made only of such entries no pattern
\* is applied to any file, no file is changed or written, and nothing is
\* raised.
IdentitySkipped == \A p \in 1..NumProjects : IdentitySkippedFor(p, load_mapping(p))

IdentitySkippedWitnessFor(p, table) ==
  /\ IdentityOnly(table)
  /\ WentThrough(p)
  /\ \E f \in 1..Len(java[p]), e \in 1..Len(table) :
       CountIn(Tokens(javaInput[p][f].content), BoundNames(Chars(table[e].k))) > 0

\* A run went through a project whose table has identity entries only, one
\* of them for a key that a file of the project binds.
IdentitySkippedWitness ==
  \E p \in 1..NumProjects : IdentitySkippedWitnessFor(p, load_mapping(p))

\* ============================================ the mapping file, read and written
\* The obfuscator processes a group of one file while a refactoring tool is
\* constructed, at any moment, in a workspace with the project of that group.
InitPersistence ==
  /\ \E c \in 0..MaxDocs, s \in 0..MaxKeys :
       LET firsts == FilesWith(c, s)
       IN \E first \in firsts : files = <<first>>
  /\ mappingFile = NoMapping
  /\ project_mappings = <<>>
  /\ idx = 1
  /\ phase = "idle"
  /\ runs = 0
  /\ errors = {}
  /\ input = files
  /\ prevMapping = NoMapping
  /\ java = << <<>> >>
  /\ artifacts = [p \in 0..1 |-> NoMapping]
  /\ RefactorNew

NextPersistence ==
  \/ StartRun
  \/ ProcessFile
  \/ OpenMappingFile
  \/ DumpMapping
  \/ Construct

SpecPersistence == InitPersistence /\ [][NextPersistence]_vars

\* C11 (as claimed): a reader that loads the mapping file while save_mapping
\* writes it gets the complete previous table or the complete new table.
AtomicPersistence ==
  [][(phase = "saving" /\ rpc # "ready" /\ rpc' = "ready")
       => (self_key_mapping' \in {prevMapping.table, save_mapping(project_mappings).table})]_vars

====
